---- MODULE Spec2Model ----
(***************************************************************************)
(* Agent resource state of the cluster resource manager                    *)
(* (master/internal/resourcemanagers/agent/agent_state.go).                *)
(*                                                                         *)
(* One AgentState is owned by one serialized handler, so every operation   *)
(* of AgentState is one atomic action.  Go map iteration order is          *)
(* unspecified, so every loop over a map is a choice over the orders.      *)
(***************************************************************************)
EXTENDS Integers, Sequences, FiniteSets, TLC

\* ------------------------------------------------------------------ bounds
NumDevices == 2
NumContainers == 2
NumHandles == 1
ZeroSlotCeiling == 1
MaxSteps == 4
MaxFailureSteps == 3
MaxCopySteps == 5
NumPools == 2
NumAgents == 2

\* ------------------------------------------------------------- value domains
\* The nil pointer (*cproto.ID, *actor.Ref).
Nil == 0
DeviceIDs == 1..NumDevices
ContainerIDs == 1..NumContainers
Handles == 1..NumHandles
\* cproto.State values the code distinguishes: the zero value of a freshly
\* made Container, a state of a live container, and Terminated.
StateZero == ""
StateAssigned == "ASSIGNED"
StateRunning == "RUNNING"
Terminated == "TERMINATED"
\* A *bool of a patch message: <<>> is the nil pointer.
OptBool == {<<>>, <<TRUE>>, <<FALSE>>}

\* ------------------------------------------------------------ map helpers
Put(f, k, v) == [x \in (DOMAIN f) \cup {k} |-> IF x = k THEN v ELSE f[x]]
Delete(f, k) == [x \in (DOMAIN f) \ {k} |-> f[x]]
EmptyMap == [x \in {} |-> Nil]
\* A Go map read: the zero value (nil) for a missing key.
Lookup(f, k) == IF k \in DOMAIN f THEN f[k] ELSE Nil
Range(s) == {s[i] : i \in DOMAIN s}
\* The lists of k pairwise-distinct elements of S.
Arrangements(S, k) == {s \in [1..k -> S] : \A i, j \in 1..k : i # j => s[i] # s[j]}
DeviceLists == UNION {Arrangements(DeviceIDs, k) : k \in 0..NumDevices}
\* The visiting orders of a range over a map with key set S.
Orders(S) == Arrangements(S, Cardinality(S))

\* --------------------------------------------------------------- the state
VARIABLES
    Devices,              \* device -> owner container id or Nil
    enabled,
    draining,
    uuid,
    maxZeroSlotContainers,
    slotStates,           \* device id -> slot
    containerAllocation,  \* container id -> owner handle
    containerState,       \* container id -> container
    db,                   \* the agent snapshot row: <<>> or <<snapshot>>
    containerRows,        \* the container rows of the store
    saved,                \* the snapshot row is the snapshot of this state
    steps,
    last,                 \* the last operation: its arguments and result
    copiedAgent           \* the scheduler's DeepCopy of the agent: <<>> or <<copy>>

vars == <<Devices, enabled, draining, uuid, maxZeroSlotContainers, slotStates,
          containerAllocation, containerState, db, containerRows, saved, steps, last,
          copiedAgent>>

\* The AgentState object as one value.
AgentState == [Devices |-> Devices,
               enabled |-> enabled,
               draining |-> draining,
               uuid |-> uuid,
               maxZeroSlotContainers |-> maxZeroSlotContainers,
               slotStates |-> slotStates,
               containerAllocation |-> containerAllocation,
               containerState |-> containerState]

\* Mutant: a reported device starts with agentEnabled unset.
NewSlot_AgentDisabled(d) ==
    [device |-> d, deviceAdded |-> FALSE, agentEnabled |-> FALSE,
     userEnabled |-> TRUE, draining |-> FALSE, containerID |-> Nil]

NewSlot(d) == [device |-> d, deviceAdded |-> FALSE, agentEnabled |-> TRUE,
               userEnabled |-> TRUE, draining |-> FALSE, containerID |-> Nil]

Container(cid, state, devs) == [ID |-> cid, State |-> state, Devices |-> devs]

NewAgentState(u, mz) == [Devices |-> EmptyMap,
                         enabled |-> TRUE,
                         draining |-> FALSE,
                         uuid |-> u,
                         maxZeroSlotContainers |-> mz,
                         slotStates |-> EmptyMap,
                         containerAllocation |-> EmptyMap,
                         containerState |-> EmptyMap]

\* ------------------------------------------------------- capacity queries
SlotEnabled(s) == s.agentEnabled /\ s.userEnabled

\* Mutant: the slots holding a container are counted, materialized or not.
NumUsedSlots_CountsBoundSlots(a) ==
    Cardinality({d \in DOMAIN a.slotStates : a.slotStates[d].containerID # Nil})

NumUsedSlots(a) == Cardinality({d \in DOMAIN a.Devices : a.Devices[d] # Nil})

\* Mutant: the disabled case is tested before the draining case.
NumSlots_DisabledFirst(a) ==
    IF ~a.enabled THEN 0
    ELSE IF a.draining THEN NumUsedSlots(a)
    ELSE Cardinality(DOMAIN a.Devices)

NumSlots(a) ==
    IF a.draining THEN NumUsedSlots(a)
    ELSE IF ~a.enabled THEN 0
    ELSE Cardinality(DOMAIN a.Devices)

\* Mutant: the used slots are not subtracted.
NumEmptySlots_IgnoresUsed(a) ==
    IF a.draining \/ ~a.enabled THEN 0
    ELSE NumSlots(a)

NumEmptySlots(a) ==
    IF a.draining \/ ~a.enabled THEN 0
    ELSE NumSlots(a) - NumUsedSlots(a)

\* Mutant: every container counts, whatever its device list.
NumUsedZeroSlots_CountsAll(a) == Cardinality(DOMAIN a.containerState)

NumUsedZeroSlots(a) ==
    Cardinality({c \in DOMAIN a.containerState : Len(a.containerState[c].Devices) = 0})

NumZeroSlots(a) ==
    IF a.draining THEN NumUsedZeroSlots(a)
    ELSE IF ~a.enabled THEN 0
    ELSE a.maxZeroSlotContainers

NumEmptyZeroSlots(a) ==
    IF a.draining \/ ~a.enabled THEN 0
    ELSE NumZeroSlots(a) - NumUsedZeroSlots(a)

Idle(a) == NumUsedZeroSlots(a) = 0 /\ NumUsedSlots(a) = 0

\* ------------------------------------------------ scheduler-side allocation
\* The result of an operation: the agent afterwards, whether it returned
\* without error, the devices it returned and the signals it sent.
Result(a, ok, ret, sig) == [a |-> a, ok |-> ok, ret |-> ret, sig |-> sig]

\* Mutant: the first `slots` devices met, whoever owns them.
FreeDevicesIn_IgnoringOwner(a, order, slots) ==
    IF Len(order) > slots THEN SubSeq(order, 1, slots) ELSE order

\* The free devices met while ranging over Devices in `order`, cut at `slots`.
FreeDevicesIn(a, order, slots) ==
    LET free == SelectSeq(order, LAMBDA d : a.Devices[d] = Nil)
    IN  IF Len(free) > slots THEN SubSeq(free, 1, slots) ELSE free

RECURSIVE SetOwner(_, _, _)
SetOwner(devs, list, cid) ==
    IF list = <<>> THEN devs
    ELSE SetOwner([devs EXCEPT ![Head(list)] = cid], Tail(list), cid)

AllocateFreeDevices(a, slots, cid, order) ==
    LET a1 == [a EXCEPT !.containerState =
                   Put(a.containerState, cid, Container(cid, StateZero, <<>>))]
        devices == FreeDevicesIn(a, order, slots)
    IN  IF slots = 0 THEN Result(a1, TRUE, <<>>, <<>>)
        ELSE IF Len(devices) # slots THEN Result(a1, FALSE, <<>>, <<>>)
        ELSE Result([a1 EXCEPT !.Devices = SetOwner(a.Devices, devices, cid),
                                !.containerState[cid].Devices = devices],
                    TRUE, devices, <<>>)

\* Mutant: the devices are released but the container entry is kept.
DeallocateContainer_KeepsEntry(a, id) ==
    Result([a EXCEPT !.Devices = [d \in DOMAIN a.Devices |->
                                     IF a.Devices[d] = id THEN Nil ELSE a.Devices[d]]],
           TRUE, <<>>, <<>>)

DeallocateContainer(a, id) ==
    Result([a EXCEPT !.containerState = Delete(a.containerState, id),
                     !.Devices = [d \in DOMAIN a.Devices |->
                                     IF a.Devices[d] = id THEN Nil ELSE a.Devices[d]]],
           TRUE, <<>>, <<>>)

\* ------------------------------------------------------ agent-wide flags
\* ------------------------------------------------------------ DeepCopy
\* A map field of the copy: a map of its own (maps.Clone) or the very map object
\* of the original, which both agents then read and write.
Cloned(m) == [shared |-> FALSE, map |-> m]
SameMap == [shared |-> TRUE, map |-> EmptyMap]

\* Mutant: the copy keeps the original's Devices map.
DeepCopy_SharesDevices(a) ==
    [Devices |-> SameMap,
     maxZeroSlotContainers |-> a.maxZeroSlotContainers,
     enabled |-> a.enabled,
     draining |-> a.draining,
     containerState |-> Cloned(a.containerState),
     slotStates |-> SameMap]

\* DeepCopy: Devices and containerState are cloned, slotStates is the original's
\* map; uuid, containerAllocation and resourcePoolName are not copied.
DeepCopy(a) ==
    [Devices |-> Cloned(a.Devices),
     maxZeroSlotContainers |-> a.maxZeroSlotContainers,
     enabled |-> a.enabled,
     draining |-> a.draining,
     containerState |-> Cloned(a.containerState),
     slotStates |-> SameMap]

\* The map a field of the copy denotes, given the original's map.
Deref(field, original) == IF field.shared THEN original ELSE field.map

\* The copy as one AgentState value: <<>> or <<agent>>.
CopiedView ==
    IF copiedAgent = <<>> THEN <<>>
    ELSE LET c == copiedAgent[1]
         IN  <<[Devices |-> Deref(c.Devices, Devices),
                enabled |-> c.enabled,
                draining |-> c.draining,
                uuid |-> Nil,
                maxZeroSlotContainers |-> c.maxZeroSlotContainers,
                slotStates |-> Deref(c.slotStates, slotStates),
                containerAllocation |-> EmptyMap,
                containerState |-> Deref(c.containerState, containerState)]>>

\* Mutant: enabling does not end a drain.
Enable_KeepsDraining(a) == Result([a EXCEPT !.enabled = TRUE], TRUE, <<>>, <<>>)

Enable(a) == Result([a EXCEPT !.enabled = TRUE, !.draining = FALSE], TRUE, <<>>, <<>>)

\* Mutant: disabling without drain also takes the devices out of Devices.
Disable_DropsDevices(a, drain) ==
    Result([a EXCEPT !.draining = drain, !.enabled = FALSE,
                     !.Devices = IF drain THEN a.Devices ELSE EmptyMap],
           TRUE, <<>>, <<>>)

Disable(a, drain) ==
    Result([a EXCEPT !.draining = drain, !.enabled = FALSE], TRUE, <<>>, <<>>)

\* --------------------------------------------------------- reconciliation
\* Mutant: the device is added as free, whatever container holds its slot.
addDevice_Unbound(a, d, containerID) == [a EXCEPT !.Devices = Put(a.Devices, d, Nil)]

addDevice(a, d, containerID) == [a EXCEPT !.Devices = Put(a.Devices, d, containerID)]

\* Mutant: the device is left in Devices.
removeDevice_KeepsDevice(a, d) == a

removeDevice(a, d) == [a EXCEPT !.Devices = Delete(a.Devices, d)]

KillSignal(to) == [to |-> to, signal |-> "Kill", reason |-> "slot disabled"]

\* Mutant: the kill signal is sent whether or not the slot is draining.
updateSlotDeviceView_KillsWhileDraining(a, deviceID) ==
    IF deviceID \notin DOMAIN a.slotStates THEN Result(a, TRUE, <<>>, <<>>)
    ELSE
    LET s == a.slotStates[deviceID]
    IN  IF SlotEnabled(s) /\ ~s.deviceAdded
        THEN Result(addDevice([a EXCEPT !.slotStates[deviceID].deviceAdded = TRUE],
                              s.device, s.containerID),
                    TRUE, <<>>, <<>>)
        ELSE IF ~SlotEnabled(s)
        THEN LET a1 == IF ~s.draining /\ s.deviceAdded
                       THEN removeDevice(
                                [a EXCEPT !.slotStates[deviceID].deviceAdded = FALSE],
                                s.device)
                       ELSE a
                 sig == IF s.containerID # Nil
                        THEN <<KillSignal(Lookup(a.containerAllocation, s.containerID))>>
                        ELSE <<>>
             IN  Result(a1, TRUE, <<>>, sig)
        ELSE Result(a, TRUE, <<>>, <<>>)

\* Mutant: the kill signal is sent only when the device is removed.
updateSlotDeviceView_KillsOnlyOnRemoval(a, deviceID) ==
    IF deviceID \notin DOMAIN a.slotStates THEN Result(a, TRUE, <<>>, <<>>)
    ELSE
    LET s == a.slotStates[deviceID]
    IN  IF SlotEnabled(s) /\ ~s.deviceAdded
        THEN Result(addDevice([a EXCEPT !.slotStates[deviceID].deviceAdded = TRUE],
                              s.device, s.containerID),
                    TRUE, <<>>, <<>>)
        ELSE IF ~SlotEnabled(s) /\ ~s.draining /\ s.deviceAdded
        THEN Result(removeDevice([a EXCEPT !.slotStates[deviceID].deviceAdded = FALSE],
                                 s.device),
                    TRUE, <<>>,
                    IF s.containerID # Nil
                    THEN <<KillSignal(Lookup(a.containerAllocation, s.containerID))>>
                    ELSE <<>>)
        ELSE Result(a, TRUE, <<>>, <<>>)

\* Mutant: an enabled slot is added again when it is already materialized.
updateSlotDeviceView_AddsAgain(a, deviceID) ==
    IF deviceID \notin DOMAIN a.slotStates THEN Result(a, TRUE, <<>>, <<>>)
    ELSE
    LET s == a.slotStates[deviceID]
    IN  IF SlotEnabled(s)
        THEN Result(addDevice([a EXCEPT !.slotStates[deviceID].deviceAdded = TRUE],
                              s.device, s.containerID),
                    TRUE, <<>>, <<>>)
        ELSE LET a1 == IF ~s.draining /\ s.deviceAdded
                       THEN removeDevice(
                                [a EXCEPT !.slotStates[deviceID].deviceAdded = FALSE],
                                s.device)
                       ELSE a
                 sig == IF ~s.draining /\ s.containerID # Nil
                        THEN <<KillSignal(Lookup(a.containerAllocation, s.containerID))>>
                        ELSE <<>>
             IN  Result(a1, TRUE, <<>>, sig)

updateSlotDeviceView(a, deviceID) ==
    IF deviceID \notin DOMAIN a.slotStates THEN Result(a, TRUE, <<>>, <<>>)
    ELSE
    LET s == a.slotStates[deviceID]
    IN  IF SlotEnabled(s) /\ ~s.deviceAdded
        THEN Result(addDevice([a EXCEPT !.slotStates[deviceID].deviceAdded = TRUE],
                              s.device, s.containerID),
                    TRUE, <<>>, <<>>)
        ELSE IF ~SlotEnabled(s)
        THEN LET a1 == IF ~s.draining /\ s.deviceAdded
                       THEN removeDevice(
                                [a EXCEPT !.slotStates[deviceID].deviceAdded = FALSE],
                                s.device)
                       ELSE a
                 sig == IF ~s.draining /\ s.containerID # Nil
                        THEN <<KillSignal(Lookup(a.containerAllocation, s.containerID))>>
                        ELSE <<>>
             IN  Result(a1, TRUE, <<>>, sig)
        ELSE Result(a, TRUE, <<>>, <<>>)

\* agentStarted's loop over the reported devices (the persist is in the action).
RECURSIVE agentStarted(_, _)
agentStarted(a, devices) ==
    IF devices = <<>> THEN Result(a, TRUE, <<>>, <<>>)
    ELSE LET d == Head(devices)
             r1 == updateSlotDeviceView(
                       [a EXCEPT !.slotStates = Put(a.slotStates, d, NewSlot(d))], d)
             r2 == agentStarted(r1.a, Tail(devices))
         IN  Result(r2.a, TRUE, <<>>, r1.sig \o r2.sig)

\* ------------------------------------------------------ container events
\* Mutant: the loop ends at the first device that has no slot.
BindSlots_StopsAtMissing(slots, devices, containerID) ==
    IF devices = <<>> \/ Head(devices) \notin DOMAIN slots THEN slots
    ELSE [d \in DOMAIN slots |->
             IF \E i \in DOMAIN devices :
                    /\ devices[i] = d
                    /\ \A j \in 1..i : devices[j] \in DOMAIN slots
             THEN [slots[d] EXCEPT !.containerID = containerID]
             ELSE slots[d]]

RECURSIVE BindSlots(_, _, _)
BindSlots(slots, devices, containerID) ==
    IF devices = <<>> THEN slots
    ELSE LET d == Head(devices)
         IN  IF d \notin DOMAIN slots
             THEN BindSlots(slots, Tail(devices), containerID)
             ELSE BindSlots([slots EXCEPT ![d].containerID = containerID],
                            Tail(devices), containerID)

\* Mutant: a Terminated container is dropped but its slots stay bound.
containerStateChanged_KeepsBindings(a, c) ==
    LET slots == IF c.State = Terminated THEN a.slotStates
                 ELSE BindSlots(a.slotStates, c.Devices, c.ID)
        cs == IF c.State = Terminated
              THEN Delete(a.containerState, c.ID)
              ELSE Put(a.containerState, c.ID, c)
    IN  Result([a EXCEPT !.slotStates = slots, !.containerState = cs], TRUE, <<>>, <<>>)

containerStateChanged(a, c) ==
    LET slots == BindSlots(a.slotStates, c.Devices,
                           IF c.State = Terminated THEN Nil ELSE c.ID)
        cs == IF c.State = Terminated
              THEN Delete(a.containerState, c.ID)
              ELSE Put(a.containerState, c.ID, c)
    IN  Result([a EXCEPT !.slotStates = slots, !.containerState = cs], TRUE, <<>>, <<>>)

\* Mutant: the slot's enabled flags are not checked.
startContainerInner_IgnoresEnabled(a, c, deviceId) ==
    IF deviceId \notin DOMAIN a.slotStates THEN Result(a, FALSE, <<>>, <<>>)
    ELSE IF a.slotStates[deviceId].containerID # Nil THEN Result(a, FALSE, <<>>, <<>>)
    ELSE Result([a EXCEPT !.slotStates[deviceId].containerID = c.ID,
                          !.containerState = Put(a.containerState, c.ID, c)],
                TRUE, <<>>, <<>>)

\* startContainer's check and binding of one device.
startContainerInner(a, c, deviceId) ==
    IF deviceId \notin DOMAIN a.slotStates THEN Result(a, FALSE, <<>>, <<>>)
    ELSE IF ~SlotEnabled(a.slotStates[deviceId]) THEN Result(a, FALSE, <<>>, <<>>)
    ELSE IF a.slotStates[deviceId].containerID # Nil THEN Result(a, FALSE, <<>>, <<>>)
    ELSE Result([a EXCEPT !.slotStates[deviceId].containerID = c.ID,
                          !.containerState = Put(a.containerState, c.ID, c)],
                TRUE, <<>>, <<>>)

RECURSIVE startContainerLoop(_, _, _)
startContainerLoop(a, c, devices) ==
    IF devices = <<>> THEN Result(a, TRUE, <<>>, <<>>)
    ELSE LET r == startContainerInner(a, c, Head(devices))
         IN  IF ~r.ok THEN r ELSE startContainerLoop(r.a, c, Tail(devices))

startContainer(a, c, taskActor) ==
    LET r == startContainerLoop(a, c, c.Devices)
    IN  IF ~r.ok THEN r
        ELSE Result([r.a EXCEPT !.containerAllocation =
                         Put(r.a.containerAllocation, c.ID, taskActor)],
                    TRUE, <<>>, <<>>)

\* ------------------------------------------------------------ slot patches
getSlotSummary(a, deviceID) ==
    LET s == a.slotStates[deviceID]
    IN  [ID |-> s.device,
         Device |-> s.device,
         Enabled |-> SlotEnabled(s),
         Container |-> IF s.containerID # Nil /\ s.containerID \in DOMAIN a.containerState
                       THEN <<a.containerState[s.containerID]>>
                       ELSE <<>>,
         Draining |-> s.draining]

\* Mutant: the flags are set but the slot is not reconciled.
patchSlotStateInner_NoReconcile(a, msgEnabled, msgDrain, deviceID) ==
    LET s  == a.slotStates[deviceID]
        s1 == IF msgEnabled # <<>> THEN [s EXCEPT !.userEnabled = msgEnabled[1]] ELSE s
        s2 == IF msgDrain # <<>> THEN [s1 EXCEPT !.draining = msgDrain[1]] ELSE s1
        a1 == [a EXCEPT !.slotStates[deviceID] = s2]
    IN  Result(a1, TRUE, <<getSlotSummary(a1, deviceID)>>, <<>>)

\* msgEnabled and msgDrain are the *bool fields of the patch message.
patchSlotStateInner(a, msgEnabled, msgDrain, deviceID) ==
    LET s  == a.slotStates[deviceID]
        s1 == IF msgEnabled # <<>> THEN [s EXCEPT !.userEnabled = msgEnabled[1]] ELSE s
        s2 == IF msgDrain # <<>> THEN [s1 EXCEPT !.draining = msgDrain[1]] ELSE s1
        r  == updateSlotDeviceView([a EXCEPT !.slotStates[deviceID] = s2], deviceID)
    IN  Result(r.a, TRUE, <<getSlotSummary(r.a, deviceID)>>, r.sig)

\* Mutant: an unknown device id is not reported as an error.
patchSlotState_SilentOnMissing(a, msgID, msgEnabled, msgDrain) ==
    IF msgID \notin DOMAIN a.slotStates THEN Result(a, TRUE, <<>>, <<>>)
    ELSE patchSlotStateInner(a, msgEnabled, msgDrain, msgID)

patchSlotState(a, msgID, msgEnabled, msgDrain) ==
    IF msgID \notin DOMAIN a.slotStates THEN Result(a, FALSE, <<>>, <<>>)
    ELSE patchSlotStateInner(a, msgEnabled, msgDrain, msgID)

\* Mutant: the loop stops after the first slot it visits.
patchAllSlotsState_FirstSlotOnly(a, msgEnabled, msgDrain, order) ==
    IF order = <<>> THEN Result(a, TRUE, <<>>, <<>>)
    ELSE patchSlotStateInner(a, msgEnabled, msgDrain, Head(order))

\* patchAllSlotsState ranging over slotStates in `order`; the summaries returned
\* form a map keyed by slot id, kept here as the list of its values.
RECURSIVE patchAllSlotsState(_, _, _, _)
patchAllSlotsState(a, msgEnabled, msgDrain, order) ==
    IF order = <<>> THEN Result(a, TRUE, <<>>, <<>>)
    ELSE LET r1 == patchSlotStateInner(a, msgEnabled, msgDrain, Head(order))
             r2 == patchAllSlotsState(r1.a, msgEnabled, msgDrain, Tail(order))
         IN  Result(r2.a, TRUE,
                    r1.ret \o r2.ret,
                    r1.sig \o r2.sig)

\* ------------------------------------------------------------- persistence
\* uuid.UUID.String and uuid.Parse: the text form is the value wrapped.
UUIDString(u) == <<u>>
UUIDParse(str) == str[1]

snapshot(a) ==
    [UUID |-> UUIDString(a.uuid),
     UserEnabled |-> a.enabled,
     UserDraining |-> a.draining,
     MaxZeroSlotContainers |-> a.maxZeroSlotContainers,
     Slots |-> [d \in DOMAIN a.slotStates |->
                   [Device |-> a.slotStates[d].device,
                    UserEnabled |-> a.slotStates[d].userEnabled,
                    ContainerID |-> a.slotStates[d].containerID]],
     Containers |-> DOMAIN a.containerState]

\* NewContainerSnapshot and ContainerSnapshot.ToContainer.
NewContainerSnapshot(c) == [ID |-> c.ID, State |-> c.State, Devices |-> c.Devices]
ToContainer(row) == Container(row.ID, row.State, row.Devices)

\* The store before any container was reported: one row per container id.
InitialContainerRows == [c \in ContainerIDs |-> NewContainerSnapshot(Container(c, StateZero, <<>>))]

\* UPDATE ... WHERE container_id = ?: only an existing row changes.
updateContainerState(rows, c) ==
    IF c.ID \in DOMAIN rows THEN [rows EXCEPT ![c.ID] = NewContainerSnapshot(c)] ELSE rows

newAgentStateFromSnapshot(as, rows) ==
    [Devices |-> [d \in DOMAIN as.Slots |-> as.Slots[d].ContainerID],
     enabled |-> as.UserEnabled,
     draining |-> as.UserDraining,
     uuid |-> UUIDParse(as.UUID),
     maxZeroSlotContainers |-> as.MaxZeroSlotContainers,
     slotStates |-> [d \in DOMAIN as.Slots |->
                        [device |-> as.Slots[d].Device,
                         deviceAdded |-> TRUE,
                         agentEnabled |-> as.UserEnabled,
                         userEnabled |-> as.UserEnabled,
                         draining |-> as.UserDraining,
                         containerID |-> as.Slots[d].ContainerID]],
     containerAllocation |-> EmptyMap,
     containerState |-> [c \in as.Containers \cap DOMAIN rows |-> ToContainer(rows[c])]]

\* ------------------------------------------------------------ master start
Pools == 1..NumPools
AgentIDs == 1..NumAgents

\* A row of the agent snapshot table: the snapshot of agent a, registered as
\* agent `id` in resource pool `pool`.
AgentSnapshotRow(a, id, pool) ==
    snapshot(a) @@ [AgentID |-> id, ResourcePoolName |-> pool]

\* Mutant: every configured pool is listed.
listResourcePoolsWithReattachEnabled_AllPools(rpConfigList) == DOMAIN rpConfigList

\* rpConfigList: pool name -> its AgentReattachEnabled setting.
listResourcePoolsWithReattachEnabled(rpConfigList) ==
    {p \in DOMAIN rpConfigList : rpConfigList[p]}

\* snapshots: the snapshot table, keyed by agent id (its unique key); rows: the
\* container rows. selectOk: the select of the snapshots succeeds; containersOk:
\* the selects of container rows made by newAgentStateFromSnapshot succeed.
\* read tells whether the store was queried.
retrieveAgentStates(rpConfigList, snapshots, rows, selectOk, containersOk) ==
    LET rpNames  == listResourcePoolsWithReattachEnabled(rpConfigList)
        selected == {id \in DOMAIN snapshots : snapshots[id].ResourcePoolName \in rpNames}
        failing  == {id \in selected : snapshots[id].Containers # {} /\ ~containersOk}
    IN  IF rpNames = {} THEN [states |-> EmptyMap, ok |-> TRUE, read |-> FALSE]
        ELSE IF ~selectOk THEN [states |-> EmptyMap, ok |-> FALSE, read |-> TRUE]
        ELSE IF failing # {} THEN [states |-> EmptyMap, ok |-> FALSE, read |-> TRUE]
        ELSE [states |-> [id \in selected |->
                             newAgentStateFromSnapshot(snapshots[id], rows)],
              ok |-> TRUE, read |-> TRUE]

\* live: the containers whose allocation id resolves to a running allocation,
\* with that allocation's handle.
\* Mutant: every container of containerState gets an entry, resolved or not.
restoreContainersField_RegistersAll(a, live) ==
    Result([a EXCEPT !.containerAllocation =
                [c \in DOMAIN a.containerAllocation \cup DOMAIN a.containerState |->
                    IF c \in DOMAIN live THEN live[c]
                    ELSE Lookup(a.containerAllocation, c)]],
           TRUE, <<>>, <<>>)

restoreContainersField(a, live) ==
    Result([a EXCEPT !.containerAllocation =
                [c \in DOMAIN a.containerAllocation \cup DOMAIN live |->
                    IF c \in DOMAIN live THEN live[c] ELSE a.containerAllocation[c]]],
           TRUE, <<>>, <<>>)

\* clearUnlessRecovered's four loops; each is independent of the visiting order.
clearDevices(a, recovered) ==
    LET gone == {d \in DOMAIN a.Devices :
                    a.Devices[d] # Nil /\ a.Devices[d] \notin recovered}
    IN  [a EXCEPT !.Devices = [d \in DOMAIN a.Devices |->
                                  IF d \in gone THEN Nil ELSE a.Devices[d]],
                  !.slotStates = [d \in DOMAIN a.slotStates |->
                                     IF d \in gone
                                     THEN [a.slotStates[d] EXCEPT !.containerID = Nil]
                                     ELSE a.slotStates[d]]]

\* Mutant: the loop over the slots is missing.
clearSlots_Skipped(a, recovered) == a

clearSlots(a, recovered) ==
    [a EXCEPT !.slotStates = [d \in DOMAIN a.slotStates |->
         IF a.slotStates[d].containerID # Nil /\ a.slotStates[d].containerID \notin recovered
         THEN [a.slotStates[d] EXCEPT !.containerID = Nil]
         ELSE a.slotStates[d]]]

clearContainerState(a, recovered) ==
    [a EXCEPT !.containerState =
        [c \in DOMAIN a.containerState \cap recovered |-> a.containerState[c]]]

\* Mutant: the loop over containerAllocation is missing.
clearContainerAllocation_Skipped(a, recovered) == a

clearContainerAllocation(a, recovered) ==
    [a EXCEPT !.containerAllocation =
        [c \in DOMAIN a.containerAllocation \cap recovered |-> a.containerAllocation[c]]]

\* Mutant: only the loop over Devices raises the `updated` flag.
clearUnlessRecovered_UpdatedByDevicesOnly(a, recovered) ==
    LET a4 == clearContainerAllocation(
                  clearContainerState(clearSlots(clearDevices(a, recovered), recovered),
                                      recovered),
                  recovered)
    IN  Result(a4, a4.Devices # a.Devices, <<>>, <<>>)

\* ok is the `updated` flag: whether any loop removed something.
clearUnlessRecovered(a, recovered) ==
    LET a1 == clearDevices(a, recovered)
        a2 == clearSlots(a1, recovered)
        a3 == clearContainerState(a2, recovered)
        a4 == clearContainerAllocation(a3, recovered)
        updated == \/ a1.Devices # a.Devices
                   \/ a2.slotStates # a1.slotStates
                   \/ a3.containerState # a2.containerState
                   \/ a4.containerAllocation # a3.containerAllocation
    IN  Result(a4, updated, <<>>, <<>>)

\* ------------------------------------------------------------------ actions
NewUUID == 1

NoArgs == [none |-> TRUE]

Init ==
    /\ LET a == NewAgentState(NewUUID, ZeroSlotCeiling)
       IN  /\ Devices = a.Devices
           /\ enabled = a.enabled
           /\ draining = a.draining
           /\ uuid = a.uuid
           /\ maxZeroSlotContainers = a.maxZeroSlotContainers
           /\ slotStates = a.slotStates
           /\ containerAllocation = a.containerAllocation
           /\ containerState = a.containerState
           /\ last = [op |-> "NewAgentState", arg |-> NoArgs, pre |-> a,
                      ok |-> TRUE, ret |-> <<>>, sig |-> <<>>, persists |-> 0,
                      chained |-> FALSE, pre2 |-> a, copy |-> <<>>]
    /\ copiedAgent = <<>>
    /\ db = <<>>
    /\ containerRows = InitialContainerRows
    /\ saved = FALSE
    /\ steps = 0

\* The in-memory effect of an operation with result r.
Commit(r) ==
    /\ Devices' = r.a.Devices
    /\ enabled' = r.a.enabled
    /\ draining' = r.a.draining
    /\ uuid' = r.a.uuid
    /\ maxZeroSlotContainers' = r.a.maxZeroSlotContainers
    /\ slotStates' = r.a.slotStates
    /\ containerAllocation' = r.a.containerAllocation
    /\ containerState' = r.a.containerState
    /\ copiedAgent' = copiedAgent
    /\ steps' = steps + 1

\* chained: a DeallocateContainer that directly follows a successful
\* AllocateFreeDevices of the same container, or a restoreContainersField that
\* directly follows the rebuilding of the agent from its snapshot; pre2 is then
\* the agent before that earlier operation (otherwise pre2 is pre).
Chained(op, arg) ==
    \/ /\ op = "DeallocateContainer"
       /\ last.op = "AllocateFreeDevices"
       /\ last.ok
       /\ last.arg.cid = arg.id
    \/ /\ op = "restoreContainersField"
       /\ last.op = "retrieveAgentStates"

Record(op, arg, r, persists) ==
    last' = [op |-> op, arg |-> arg, pre |-> AgentState,
             ok |-> r.ok, ret |-> r.ret, sig |-> r.sig, persists |-> persists,
             chained |-> Chained(op, arg),
             pre2 |-> IF Chained(op, arg) THEN last.pre ELSE AgentState,
             copy |-> CopiedView]

\* persist(): the upsert of the snapshot either succeeds or fails.
Persist(a, persistOk) ==
    /\ db' = IF persistOk THEN <<snapshot(a)>> ELSE db
    /\ saved' = persistOk

\* An operation that does not call persist().
NoPersist(r) ==
    /\ db' = db
    /\ saved' = (saved /\ r.a = AgentState)

\* Mutant: a failed store write abandons the transition.
AfterStoreWrite_Aborting(a, r, writeOk) ==
    IF writeOk THEN r ELSE Result(a, FALSE, <<>>, <<>>)

\* `if err := ...; err != nil { ctx.Log().Warnf(...) }`: an error of persist or
\* updateContainerState is logged and the handler goes on with its result r.
AfterStoreWrite(a, r, writeOk) == r

AgentStartedAction(outcomes) ==
    /\ steps < MaxSteps
    /\ \E devices \in DeviceLists, persistOk \in outcomes :
          LET r == AfterStoreWrite(AgentState, agentStarted(AgentState, devices),
                                   persistOk)
          IN  /\ Commit(r)
              /\ Persist(r.a, persistOk)
              /\ Record("agentStarted", [devices |-> devices, persistOk |-> persistOk], r, 1)
    /\ UNCHANGED containerRows

AllocateFreeDevicesAction ==
    /\ steps < MaxSteps
    /\ \E slots \in 0..NumDevices, cid \in ContainerIDs, order \in Orders(DOMAIN Devices) :
          LET r == AllocateFreeDevices(AgentState, slots, cid, order)
          IN  /\ Commit(r)
              /\ NoPersist(r)
              /\ Record("AllocateFreeDevices", [slots |-> slots, cid |-> cid], r, 0)
    /\ UNCHANGED containerRows

DeallocateContainerAction ==
    /\ steps < MaxSteps
    /\ \E id \in ContainerIDs :
          LET r == DeallocateContainer(AgentState, id)
          IN  /\ Commit(r)
              /\ NoPersist(r)
              /\ Record("DeallocateContainer", [id |-> id], r, 0)
    /\ UNCHANGED containerRows

EnableAction ==
    /\ steps < MaxSteps
    /\ LET r == Enable(AgentState)
       IN  /\ Commit(r)
           /\ NoPersist(r)
           /\ Record("Enable", NoArgs, r, 0)
    /\ UNCHANGED containerRows

DisableAction ==
    /\ steps < MaxSteps
    /\ \E drain \in BOOLEAN :
          LET r == Disable(AgentState, drain)
          IN  /\ Commit(r)
              /\ NoPersist(r)
              /\ Record("Disable", [drain |-> drain], r, 0)
    /\ UNCHANGED containerRows

ContainerStateChangedAction(outcomes) ==
    /\ steps < MaxSteps
    /\ \E cid \in ContainerIDs, state \in {StateRunning, Terminated},
          devices \in DeviceLists, persistOk \in outcomes, updateOk \in outcomes :
          LET c == Container(cid, state, devices)
              r == AfterStoreWrite(AgentState,
                       AfterStoreWrite(AgentState, containerStateChanged(AgentState, c),
                                       persistOk),
                       updateOk)
          IN  /\ Commit(r)
              /\ Persist(r.a, persistOk)
              /\ containerRows' = IF updateOk THEN updateContainerState(containerRows, c)
                                  ELSE containerRows
              /\ Record("containerStateChanged",
                        [container |-> c, persistOk |-> persistOk, updateOk |-> updateOk],
                        r, 1)

StartContainerAction(outcomes) ==
    /\ steps < MaxSteps
    /\ \E cid \in ContainerIDs, devices \in DeviceLists, taskActor \in Handles :
          LET c == Container(cid, StateAssigned, devices)
              r0 == startContainer(AgentState, c, taskActor)
          IN  IF r0.ok
              THEN \E persistOk \in outcomes, updateOk \in outcomes :
                      LET r == AfterStoreWrite(AgentState,
                                   AfterStoreWrite(AgentState, r0, persistOk), updateOk)
                      IN  /\ Commit(r)
                          /\ Persist(r.a, persistOk)
                          /\ containerRows' = IF updateOk
                                              THEN updateContainerState(containerRows, c)
                                              ELSE containerRows
                          /\ Record("startContainer",
                                    [container |-> c, taskActor |-> taskActor,
                                     persistOk |-> persistOk, updateOk |-> updateOk],
                                    r, 1)
              ELSE /\ Commit(r0)
                   /\ NoPersist(r0)
                   /\ UNCHANGED containerRows
                   /\ Record("startContainer",
                             [container |-> c, taskActor |-> taskActor,
                              persistOk |-> FALSE, updateOk |-> FALSE], r0, 0)

PatchSlotStateAction ==
    /\ steps < MaxSteps
    /\ \E id \in DeviceIDs, msgEnabled \in OptBool, msgDrain \in OptBool :
          LET r == patchSlotState(AgentState, id, msgEnabled, msgDrain)
          IN  /\ Commit(r)
              /\ NoPersist(r)
              /\ Record("patchSlotState",
                        [id |-> id, enabled |-> msgEnabled, drain |-> msgDrain], r, 0)
    /\ UNCHANGED containerRows

PatchAllSlotsStateAction ==
    /\ steps < MaxSteps
    /\ \E msgEnabled \in OptBool, msgDrain \in OptBool, order \in Orders(DOMAIN slotStates) :
          LET r == patchAllSlotsState(AgentState, msgEnabled, msgDrain, order)
          IN  /\ Commit(r)
              /\ NoPersist(r)
              /\ Record("patchAllSlotsState",
                        [enabled |-> msgEnabled, drain |-> msgDrain], r, 0)
    /\ UNCHANGED containerRows

ClearUnlessRecoveredAction(outcomes) ==
    /\ steps < MaxSteps
    /\ \E recovered \in SUBSET ContainerIDs :
          LET r == clearUnlessRecovered(AgentState, recovered)
          IN  /\ Commit(r)
              /\ IF r.ok
                 THEN \E persistOk \in outcomes :
                         /\ Persist(r.a, persistOk)
                         /\ Record("clearUnlessRecovered",
                                   [recovered |-> recovered, persistOk |-> persistOk], r, 1)
                 ELSE /\ NoPersist(r)
                      /\ Record("clearUnlessRecovered",
                                [recovered |-> recovered, persistOk |-> FALSE], r, 0)
    /\ UNCHANGED containerRows

\* A master restart: the agent is rebuilt from its snapshot row.
\* arg.saved: the row is the snapshot of the agent as it was before the restart.
RetrieveAgentStatesAction ==
    /\ steps < MaxSteps
    /\ db # <<>>
    /\ LET r == Result(newAgentStateFromSnapshot(db[1], containerRows), TRUE, <<>>, <<>>)
       IN  /\ Commit(r)
           /\ Record("retrieveAgentStates", [saved |-> saved], r, 0)
    /\ saved' = FALSE
    /\ UNCHANGED <<db, containerRows>>

RestoreContainersFieldAction ==
    /\ steps < MaxSteps
    /\ \E known \in SUBSET (DOMAIN containerState) :
       \E live \in [known -> Handles] :
          LET r == restoreContainersField(AgentState, live)
          IN  /\ Commit(r)
              /\ NoPersist(r)
              /\ Record("restoreContainersField", [live |-> live], r, 0)
    /\ UNCHANGED containerRows

\* Every store write succeeds.
Next ==
    \/ AgentStartedAction({TRUE})
    \/ AllocateFreeDevicesAction
    \/ DeallocateContainerAction
    \/ EnableAction
    \/ DisableAction
    \/ ContainerStateChangedAction({TRUE})
    \/ StartContainerAction({TRUE})
    \/ PatchSlotStateAction
    \/ PatchAllSlotsStateAction
    \/ ClearUnlessRecoveredAction({TRUE})
    \/ RetrieveAgentStatesAction
    \/ RestoreContainersFieldAction

Spec == Init /\ [][Next]_vars

\* Every store write may fail; the runs are one step shorter.
NextStoreFailures ==
    \/ steps < MaxFailureSteps /\ AgentStartedAction(BOOLEAN)
    \/ steps < MaxFailureSteps /\ AllocateFreeDevicesAction
    \/ steps < MaxFailureSteps /\ DeallocateContainerAction
    \/ steps < MaxFailureSteps /\ EnableAction
    \/ steps < MaxFailureSteps /\ DisableAction
    \/ steps < MaxFailureSteps /\ ContainerStateChangedAction(BOOLEAN)
    \/ steps < MaxFailureSteps /\ StartContainerAction(BOOLEAN)
    \/ steps < MaxFailureSteps /\ PatchSlotStateAction
    \/ steps < MaxFailureSteps /\ PatchAllSlotsStateAction
    \/ steps < MaxFailureSteps /\ ClearUnlessRecoveredAction(BOOLEAN)
    \/ steps < MaxFailureSteps /\ RetrieveAgentStatesAction
    \/ steps < MaxFailureSteps /\ RestoreContainersFieldAction

SpecStoreFailures == Init /\ [][NextStoreFailures]_vars

\* --------------------------------------------------- the scheduler's copy
\* The scheduler takes a copy of the agent.
DeepCopyAction ==
    /\ steps < MaxCopySteps
    /\ copiedAgent' = <<DeepCopy(AgentState)>>
    /\ last' = [op |-> "DeepCopy", arg |-> NoArgs, pre |-> AgentState,
                ok |-> TRUE, ret |-> <<>>, sig |-> <<>>, persists |-> 0,
                chained |-> FALSE, pre2 |-> AgentState, copy |-> CopiedView]
    /\ steps' = steps + 1
    /\ UNCHANGED <<Devices, enabled, draining, uuid, maxZeroSlotContainers, slotStates,
                   containerAllocation, containerState, db, containerRows, saved>>

\* The in-memory effect of an operation on the copy with result r: each map is
\* written in the map object the copy's field denotes, the copy's own or the
\* original's. (The only object written through a pointer, the Container of
\* AllocateFreeDevices, is the one that call has just created.)
CommitCopy(r) ==
    LET c == copiedAgent[1]
    IN  /\ copiedAgent' =
               <<[c EXCEPT !.Devices = IF @.shared THEN @ ELSE Cloned(r.a.Devices),
                           !.containerState =
                               IF @.shared THEN @ ELSE Cloned(r.a.containerState),
                           !.slotStates = IF @.shared THEN @ ELSE Cloned(r.a.slotStates)]>>
        /\ Devices' = IF c.Devices.shared THEN r.a.Devices ELSE Devices
        /\ containerState' =
               IF c.containerState.shared THEN r.a.containerState ELSE containerState
        /\ slotStates' = IF c.slotStates.shared THEN r.a.slotStates ELSE slotStates
        /\ saved' = (saved /\ Devices' = Devices /\ containerState' = containerState
                           /\ slotStates' = slotStates)
        /\ steps' = steps + 1
        /\ UNCHANGED <<enabled, draining, uuid, maxZeroSlotContainers,
                       containerAllocation, db, containerRows>>

RecordCopy(op, arg, r) ==
    last' = [op |-> op, arg |-> arg, pre |-> AgentState,
             ok |-> r.ok, ret |-> r.ret, sig |-> r.sig, persists |-> 0,
             chained |-> FALSE, pre2 |-> AgentState, copy |-> CopiedView]

CopyAllocateFreeDevicesAction ==
    /\ steps < MaxCopySteps
    /\ copiedAgent # <<>>
    /\ \E slots \in 0..NumDevices, cid \in ContainerIDs,
          order \in Orders(DOMAIN CopiedView[1].Devices) :
          LET r == AllocateFreeDevices(CopiedView[1], slots, cid, order)
          IN  /\ CommitCopy(r)
              /\ RecordCopy("copy.AllocateFreeDevices", [slots |-> slots, cid |-> cid], r)

CopyDeallocateContainerAction ==
    /\ steps < MaxCopySteps
    /\ copiedAgent # <<>>
    /\ \E id \in ContainerIDs :
          LET r == DeallocateContainer(CopiedView[1], id)
          IN  /\ CommitCopy(r)
              /\ RecordCopy("copy.DeallocateContainer", [id |-> id], r)

\* The agent and the copy the scheduler works on.
NextDeepCopy ==
    \/ AgentStartedAction({TRUE})
    \/ AllocateFreeDevicesAction
    \/ DeallocateContainerAction
    \/ DisableAction
    \/ DeepCopyAction
    \/ CopyAllocateFreeDevicesAction
    \/ CopyDeallocateContainerAction

SpecDeepCopy == Init /\ [][NextDeepCopy]_vars

\* Agents as they may have been persisted before the master stopped.
PersistedAgents(u) ==
    LET a0 == NewAgentState(u, ZeroSlotCeiling)
        a1 == agentStarted(a0, <<1>>).a
    IN  <<a0, a1, AllocateFreeDevices(a1, 0, 1, <<1>>).a, Disable(a1, TRUE).a>>

\* The snapshot tables: some of the agents have a row, in any of the pools.
SnapshotTables ==
    UNION {{[id \in ids |-> AgentSnapshotRow(PersistedAgents(id)[pick[id][1]], id,
                                             pick[id][2])]
               : pick \in [ids -> (DOMAIN PersistedAgents(NewUUID)) \X Pools]}
              : ids \in SUBSET AgentIDs}

\* The master starts: retrieveAgentStates runs on the pool configuration and the
\* snapshot table it finds.
MasterStartAction ==
    /\ steps = 0
    /\ \E configured \in SUBSET Pools :
       \E rpConfigList \in [configured -> BOOLEAN], snapshots \in SnapshotTables,
          selectOk \in BOOLEAN, containersOk \in BOOLEAN :
          LET r == retrieveAgentStates(rpConfigList, snapshots, containerRows,
                                       selectOk, containersOk)
          IN  last' = [op |-> "masterStart",
                       arg |-> [rpConfigList |-> rpConfigList, snapshots |-> snapshots,
                                selectOk |-> selectOk, containersOk |-> containersOk],
                       pre |-> AgentState, ok |-> r.ok, ret |-> r, sig |-> <<>>,
                       persists |-> 0, chained |-> FALSE, pre2 |-> AgentState,
                       copy |-> CopiedView]
    /\ steps' = steps + 1
    /\ UNCHANGED <<Devices, enabled, draining, uuid, maxZeroSlotContainers, slotStates,
                   containerAllocation, containerState, db, containerRows, saved,
                   copiedAgent>>

NextMasterStart == MasterStartAction

SpecMasterStart == Init /\ [][NextMasterStart]_vars

\* ------------------------------------------------------------- properties
\* Every materialized device has a slot, so clearUnlessRecovered's
\* a.slotStates[d.ID] is never a nil dereference.
DevicesHaveSlots == DOMAIN Devices \subseteq DOMAIN slotStates

Distinct(list) == \A i, j \in DOMAIN list : i # j => list[i] # list[j]

OwnedBy(a, cid) == {d \in DOMAIN a.Devices : a.Devices[d] = cid}

SlotBindings(a) == [d \in DOMAIN a.slotStates |-> a.slotStates[d].containerID]

IsAllocate == last.op = "AllocateFreeDevices"

\* C1: AllocateFreeDevices(k, C) with k >= 1 on an enabled, not draining agent
\* with NumEmptySlots >= k returns exactly k pairwise-distinct devices that were
\* unowned before the call; afterwards each of them is owned by C,
\* containerState[C].Devices is the returned list and every other device keeps
\* its owner.
C1_AllocateSucceeds ==
    (/\ IsAllocate
     /\ last.arg.slots >= 1
     /\ last.pre.enabled /\ ~last.pre.draining
     /\ NumEmptySlots(last.pre) >= last.arg.slots)
    => /\ last.ok
       /\ Len(last.ret) = last.arg.slots
       /\ Distinct(last.ret)
       /\ \A i \in DOMAIN last.ret :
             /\ last.ret[i] \in DOMAIN last.pre.Devices
             /\ last.pre.Devices[last.ret[i]] = Nil
             /\ Devices[last.ret[i]] = last.arg.cid
       /\ last.arg.cid \in DOMAIN containerState
       /\ containerState[last.arg.cid].Devices = last.ret
       /\ DOMAIN Devices = DOMAIN last.pre.Devices
       /\ \A d \in DOMAIN Devices \ Range(last.ret) : Devices[d] = last.pre.Devices[d]

\* A successful allocation of one device next to a device another container owns.
C1_Witness ==
    /\ IsAllocate
    /\ last.arg.slots >= 1
    /\ last.pre.enabled /\ ~last.pre.draining
    /\ NumEmptySlots(last.pre) >= last.arg.slots
    /\ last.ok
    /\ \E d \in DOMAIN last.pre.Devices :
          last.pre.Devices[d] # Nil /\ last.pre.Devices[d] # last.arg.cid

\* C2 (as claimed): AllocateFreeDevices(k, C) called when NumEmptySlots < k, a
\* draining or disabled agent included, returns an error and leaves every
\* device's owner unchanged.
C2_AllocateFailsWithoutEmptySlots ==
    (IsAllocate /\ NumEmptySlots(last.pre) < last.arg.slots)
    => (~last.ok /\ Devices = last.pre.Devices)

\* C3 (as claimed): a failed AllocateFreeDevices mutates nothing: Devices,
\* containerState, slotStates and containerAllocation are as before the call,
\* and so are NumUsedZeroSlots, NumEmptyZeroSlots and Idle.
C3_FailedAllocateMutatesNothing ==
    (IsAllocate /\ ~last.ok)
    => /\ Devices = last.pre.Devices
       /\ containerState = last.pre.containerState
       /\ slotStates = last.pre.slotStates
       /\ containerAllocation = last.pre.containerAllocation
       /\ NumUsedZeroSlots(AgentState) = NumUsedZeroSlots(last.pre)
       /\ NumEmptyZeroSlots(AgentState) = NumEmptyZeroSlots(last.pre)
       /\ Idle(AgentState) = Idle(last.pre)

\* C4 (as claimed): startContainer is all-or-nothing: when it returns an error
\* no slot's containerID, no containerState entry and no containerAllocation
\* entry differs from before the call.
C4_StartContainerAllOrNothing ==
    (last.op = "startContainer" /\ ~last.ok)
    => /\ SlotBindings(AgentState) = SlotBindings(last.pre)
       /\ containerState = last.pre.containerState
       /\ containerAllocation = last.pre.containerAllocation

\* C5 (as claimed): at most one owner: no device is in the Devices lists of two
\* different containerState entries, and when Devices[d] and the containerID of
\* d's slot are both non-nil they name the same container.
C5_AtMostOneOwner ==
    /\ \A c1, c2 \in DOMAIN containerState :
          c1 # c2 => Range(containerState[c1].Devices)
                         \cap Range(containerState[c2].Devices) = {}
    /\ \A d \in DOMAIN Devices \cap DOMAIN slotStates :
          (Devices[d] # Nil /\ slotStates[d].containerID # Nil)
          => Devices[d] = slotStates[d].containerID

\* C6 (as claimed): for every device d of Devices and every container c,
\* Devices[d] = c iff d's slot has containerID = c and c is in containerState.
C6_DevicesMirrorSlots ==
    \A d \in DOMAIN Devices : \A c \in ContainerIDs :
        (Devices[d] = c)
        <=> (/\ d \in DOMAIN slotStates
             /\ slotStates[d].containerID = c
             /\ c \in DOMAIN containerState)

\* C6 (amended): Devices and the slots agree where a device is materialized
\* from its slot: a device that enters Devices, and every device of an agent
\* rebuilt from its snapshot, is bound to its slot's containerID.  Apart from
\* that a device of Devices gets a new non-nil owner c only from a successful
\* AllocateFreeDevices(k, c) that returned it, which records c in
\* containerState but binds no slot.
C6_OwnershipSources ==
    \A d \in DOMAIN Devices :
        IF d \notin DOMAIN last.pre.Devices \/ last.op = "retrieveAgentStates"
        THEN Devices[d] = slotStates[d].containerID
        ELSE (Devices[d] # Nil /\ Devices[d] # last.pre.Devices[d])
             => /\ IsAllocate /\ last.ok
                /\ d \in Range(last.ret)
                /\ Devices[d] = last.arg.cid
                /\ last.arg.cid \in DOMAIN containerState
                /\ slotStates = last.pre.slotStates

\* A device owned in Devices after an allocation while its slot is unbound, and
\* a slot that is materialized together with its container.
C6_Witness ==
    \/ /\ IsAllocate /\ last.ok
       /\ \E d \in Range(last.ret) : slotStates[d].containerID = Nil
    \/ /\ last.op = "patchSlotState"
       /\ \E d \in DOMAIN Devices \ DOMAIN last.pre.Devices : Devices[d] # Nil

\* DeallocateContainer(C) frees every device C owned, drops C from
\* containerState and leaves the devices of other containers alone.
DeallocateReleases ==
    last.op = "DeallocateContainer"
    => /\ DOMAIN Devices = DOMAIN last.pre.Devices
       /\ \A d \in DOMAIN Devices :
             Devices[d] = IF last.pre.Devices[d] = last.arg.id THEN Nil
                          ELSE last.pre.Devices[d]
       /\ last.arg.id \notin DOMAIN containerState
       /\ \A c \in DOMAIN last.pre.containerState \ {last.arg.id} :
             c \in DOMAIN containerState /\ containerState[c] = last.pre.containerState[c]

DeallocateRestores ==
    /\ Devices = last.pre2.Devices
    /\ containerState = last.pre2.containerState

\* C7 (as claimed): DeallocateContainer(C) releases C's devices and entry, and
\* AllocateFreeDevices(k, C) directly followed by DeallocateContainer(C)
\* restores Devices and containerState to their values before the allocation.
C7_DeallocateUndoesAllocate ==
    /\ DeallocateReleases
    /\ (last.op = "DeallocateContainer" /\ last.chained) => DeallocateRestores

\* C7 (amended): as claimed, the restoration holding when C had no
\* containerState entry and owned no device before the allocation.
C7_DeallocateUndoesFreshAllocate ==
    /\ DeallocateReleases
    /\ (/\ last.op = "DeallocateContainer" /\ last.chained
        /\ last.arg.id \notin DOMAIN last.pre2.containerState
        /\ OwnedBy(last.pre2, last.arg.id) = {})
       => DeallocateRestores

\* A fresh container is given a device, next to another container's device,
\* and is deallocated at once.
C7_Witness ==
    /\ last.op = "DeallocateContainer" /\ last.chained
    /\ last.arg.id \notin DOMAIN last.pre2.containerState
    /\ OwnedBy(last.pre2, last.arg.id) = {}
    /\ OwnedBy(last.pre, last.arg.id) # {}
    /\ \E d \in DOMAIN Devices : Devices[d] # Nil

IsRestartOfSaved == last.op = "retrieveAgentStates" /\ last.arg.saved

\* C8 (as claimed): persisting the snapshot and rebuilding the agent from it
\* keeps the UUID, the agent's enabled/draining flags, every slot's
\* (device, userEnabled, containerID) and the set of container ids.
C8_SnapshotRoundTrip ==
    IsRestartOfSaved
    => /\ uuid = last.pre.uuid
       /\ enabled = last.pre.enabled
       /\ draining = last.pre.draining
       /\ DOMAIN slotStates = DOMAIN last.pre.slotStates
       /\ \A d \in DOMAIN slotStates :
             /\ slotStates[d].device = last.pre.slotStates[d].device
             /\ slotStates[d].userEnabled = last.pre.slotStates[d].userEnabled
             /\ slotStates[d].containerID = last.pre.slotStates[d].containerID
       /\ DOMAIN containerState = DOMAIN last.pre.containerState

\* C9 (as claimed): an agent rebuilt from the snapshot of its last successful
\* persist has the Devices mapping it had at that persist, and so the same
\* NumSlots, NumUsedSlots and NumEmptySlots.
C9_RestartKeepsDevices ==
    IsRestartOfSaved
    => /\ Devices = last.pre.Devices
       /\ NumSlots(AgentState) = NumSlots(last.pre)
       /\ NumUsedSlots(AgentState) = NumUsedSlots(last.pre)
       /\ NumEmptySlots(AgentState) = NumEmptySlots(last.pre)

\* C10: after clearUnlessRecovered(S) every non-nil owner in Devices, every
\* non-nil slot containerID, every key of containerState and every key of
\* containerAllocation is in S.
C10_ClearLeavesOnlyRecovered ==
    last.op = "clearUnlessRecovered"
    => /\ \A d \in DOMAIN Devices :
             Devices[d] # Nil => Devices[d] \in last.arg.recovered
       /\ \A d \in DOMAIN slotStates :
             slotStates[d].containerID # Nil
             => slotStates[d].containerID \in last.arg.recovered
       /\ DOMAIN containerState \subseteq last.arg.recovered
       /\ DOMAIN containerAllocation \subseteq last.arg.recovered

\* A call that prunes one container's slot binding and keeps a confirmed
\* container.
C10_Witness ==
    /\ last.op = "clearUnlessRecovered"
    /\ last.ok
    /\ \E d \in DOMAIN last.pre.slotStates :
          /\ last.pre.slotStates[d].containerID # Nil
          /\ last.pre.slotStates[d].containerID \notin last.arg.recovered
    /\ DOMAIN containerState # {}

\* ---------------------------------------------------- clearing, empty set
IsClearAll == last.op = "clearUnlessRecovered" /\ last.arg.recovered = {}

\* No device owner, slot containerID, containerState entry or
\* containerAllocation entry is left in the agent.
NoReferences(a) ==
    /\ \A d \in DOMAIN a.Devices : a.Devices[d] = Nil
    /\ \A d \in DOMAIN a.slotStates : a.slotStates[d].containerID = Nil
    /\ a.containerState = EmptyMap
    /\ a.containerAllocation = EmptyMap

\* C11 as stated: clearUnlessRecovered with the empty confirmed set clears
\* every device owner, slot containerID, containerState entry and
\* containerAllocation entry, and performs exactly one persist.
C11_ClearAllPersistsOnce ==
    IsClearAll => NoReferences(AgentState) /\ last.persists = 1

\* C11: clearUnlessRecovered with the empty confirmed set clears every device
\* owner, slot containerID, containerState entry and containerAllocation entry;
\* it performs exactly one persist when the agent held at least one of them and
\* none when it held none.
C11_ClearAllPersistsOnChange ==
    IsClearAll
    => /\ NoReferences(AgentState)
       /\ last.persists = IF NoReferences(last.pre) THEN 0 ELSE 1

\* An agent whose only reference is a containerAllocation entry is cleared.
C11_Witness ==
    /\ IsClearAll
    /\ last.pre.containerAllocation # EmptyMap
    /\ last.pre.containerState = EmptyMap
    /\ \A d \in DOMAIN last.pre.Devices : last.pre.Devices[d] = Nil
    /\ last.persists = 1

\* ------------------------------------------------------------ slot patches
IsPatchSlot == last.op = "patchSlotState"

\* The last operation was a PatchSlotState with enabled = false on an enabled,
\* materialized slot that is bound to a container.
IsDisableOfBoundSlot ==
    /\ IsPatchSlot
    /\ last.arg.enabled = <<FALSE>>
    /\ last.arg.id \in DOMAIN last.pre.slotStates
    /\ SlotEnabled(last.pre.slotStates[last.arg.id])
    /\ last.pre.slotStates[last.arg.id].deviceAdded
    /\ last.arg.id \in DOMAIN last.pre.Devices
    /\ last.pre.slotStates[last.arg.id].containerID # Nil

\* C12: a PatchSlotState that disables an enabled, materialized slot bound to a
\* container sends exactly one Kill signal with reason "slot disabled", addressed
\* to the containerAllocation entry of that container, when the slot is not
\* draining after the patch; when the slot is draining after the patch it sends
\* no signal and the device stays in Devices.
C12_DisableEvictsUnlessDraining ==
    IsDisableOfBoundSlot
    => LET d == last.arg.id
           c == last.pre.slotStates[d].containerID
       IN  IF slotStates[d].draining
           THEN /\ last.sig = <<>>
                /\ d \in DOMAIN Devices
                /\ slotStates[d].deviceAdded
           ELSE /\ Len(last.sig) = 1
                /\ last.sig[1].signal = "Kill"
                /\ last.sig[1].reason = "slot disabled"
                /\ last.sig[1].to = Lookup(last.pre.containerAllocation, c)

\* A slot bound by startContainer is disabled without drain: the owner handle
\* given to startContainer gets the signal.
C12_Witness ==
    /\ IsDisableOfBoundSlot
    /\ ~slotStates[last.arg.id].draining
    /\ Len(last.sig) = 1
    /\ last.sig[1].to \in Handles
    /\ last.arg.id \notin DOMAIN Devices

\* The draining case of C12 is reached as well.
C12_DrainingCase ==
    /\ IsDisableOfBoundSlot
    /\ last.arg.drain = <<TRUE>>
    /\ last.pre.slotStates[last.arg.id].containerID \in DOMAIN last.pre.containerAllocation
    /\ last.sig = <<>>

\* C13: PatchSlotState with a device id that has no slot returns the not-found
\* error, sends no signal and leaves slotStates, Devices, containerState and
\* containerAllocation as they were.
C13_PatchUnknownSlot ==
    (IsPatchSlot /\ last.arg.id \notin DOMAIN last.pre.slotStates)
    => /\ ~last.ok
       /\ last.ret = <<>>
       /\ last.sig = <<>>
       /\ slotStates = last.pre.slotStates
       /\ Devices = last.pre.Devices
       /\ containerState = last.pre.containerState
       /\ containerAllocation = last.pre.containerAllocation

\* An agent that has a slot, a container and an owner is patched at an id it
\* does not know, with a patch that would disable the slot.
C13_Witness ==
    /\ IsPatchSlot
    /\ last.arg.id \notin DOMAIN last.pre.slotStates
    /\ last.arg.enabled = <<FALSE>>
    /\ last.pre.slotStates # EmptyMap
    /\ last.pre.containerAllocation # EmptyMap
    /\ ~last.ok

\* ---------------------------------------------------------- materialization
\* The slots the last operation passed to updateSlotDeviceView.
Reconciled ==
    IF last.op = "agentStarted" THEN Range(last.arg.devices)
    ELSE IF last.op = "patchAllSlotsState" THEN DOMAIN slotStates
    ELSE IF IsPatchSlot /\ last.ok THEN {last.arg.id}
    ELSE {}

\* A slot's device is a key of Devices exactly when its deviceAdded flag is set.
MaterializedIffAdded ==
    \A d \in DOMAIN slotStates :
        slotStates[d].device \in DOMAIN Devices <=> slotStates[d].deviceAdded

\* C14 as stated, read in the states that directly follow a reconciliation (the
\* slot's flags are then those the reconciliation saw): a slot's device is a key
\* of Devices iff deviceAdded, and deviceAdded iff the slot is effectively
\* enabled.
C14_AddedIffEnabledAtReconciliation ==
    /\ MaterializedIffAdded
    /\ \A d \in Reconciled : slotStates[d].deviceAdded <=> SlotEnabled(slotStates[d])

\* C14: in every reachable state a slot's device is a key of Devices iff
\* deviceAdded; directly after a slot's reconciliation deviceAdded is true if
\* the slot is effectively enabled, false if it is neither effectively enabled
\* nor draining, and unchanged if it is not effectively enabled but draining.
C14_MaterializationRule ==
    /\ MaterializedIffAdded
    /\ \A d \in Reconciled :
          LET s == slotStates[d]
          IN  /\ SlotEnabled(s) => s.deviceAdded
              /\ (~SlotEnabled(s) /\ ~s.draining) => ~s.deviceAdded
              /\ (~SlotEnabled(s) /\ s.draining /\ d \in DOMAIN last.pre.slotStates)
                     => s.deviceAdded = last.pre.slotStates[d].deviceAdded

\* A drain patch disabled a materialized slot: it stays materialized.
C14_Witness ==
    /\ IsPatchSlot
    /\ last.ok
    /\ last.arg.enabled = <<FALSE>>
    /\ last.arg.drain = <<TRUE>>
    /\ ~SlotEnabled(slotStates[last.arg.id])
    /\ slotStates[last.arg.id].deviceAdded
    /\ last.arg.id \in DOMAIN Devices

\* ----------------------------------------------------------- store failures
\* C15: after agentStarted, containerStateChanged and a startContainer whose
\* devices all pass validation, the in-memory agent is the one the transition
\* computes from the agent before and the arguments, and startContainer reports
\* success, whether the persist and the container-row update succeeded or failed.
C15_StoreFailureKeepsTransition ==
    /\ last.op = "agentStarted"
       => AgentState = agentStarted(last.pre, last.arg.devices).a
    /\ last.op = "containerStateChanged"
       => AgentState = containerStateChanged(last.pre, last.arg.container).a
    /\ (/\ last.op = "startContainer"
        /\ startContainer(last.pre, last.arg.container, last.arg.taskActor).ok)
       => /\ last.ok
          /\ AgentState =
                 startContainer(last.pre, last.arg.container, last.arg.taskActor).a

\* A startContainer binds a slot although both of its store writes failed.
C15_Witness ==
    /\ last.op = "startContainer"
    /\ last.ok
    /\ ~last.arg.persistOk
    /\ ~last.arg.updateOk
    /\ last.arg.container.Devices # <<>>
    /\ AgentState # last.pre
    /\ ~saved

\* --------------------------------------------------------- capacity queries
OwnedDevices == {d \in DOMAIN Devices : Devices[d] # Nil}
ZeroSlotContainers == {c \in DOMAIN containerState : containerState[c].Devices = <<>>}

\* C16: NumSlots is NumUsedSlots on a draining agent, 0 on an agent that is
\* neither draining nor enabled, and the number of devices in Devices
\* otherwise; NumEmptySlots is 0 on a draining or disabled agent and
\* NumSlots - NumUsedSlots otherwise.
C16_SlotCapacity ==
    /\ NumUsedSlots(AgentState) = Cardinality(OwnedDevices)
    /\ draining => NumSlots(AgentState) = Cardinality(OwnedDevices)
    /\ (~draining /\ ~enabled) => NumSlots(AgentState) = 0
    /\ (~draining /\ enabled) => NumSlots(AgentState) = Cardinality(DOMAIN Devices)
    /\ (draining \/ ~enabled) => NumEmptySlots(AgentState) = 0
    /\ (~draining /\ enabled)
       => NumEmptySlots(AgentState) = Cardinality(DOMAIN Devices \ OwnedDevices)

\* A draining agent with an owned and a free device reports only the owned one.
C16_Witness ==
    /\ draining
    /\ OwnedDevices # {}
    /\ DOMAIN Devices \ OwnedDevices # {}
    /\ NumSlots(AgentState) = 1
    /\ NumEmptySlots(AgentState) = 0

\* C17: NumUsedZeroSlots is the number of containerState entries with an empty
\* device list; NumZeroSlots is NumUsedZeroSlots on a draining agent, 0 on an
\* agent that is neither draining nor enabled, and maxZeroSlotContainers
\* otherwise; NumEmptyZeroSlots is 0 on a draining or disabled agent and
\* NumZeroSlots - NumUsedZeroSlots otherwise.
C17_ZeroSlotCapacity ==
    /\ NumUsedZeroSlots(AgentState) = Cardinality(ZeroSlotContainers)
    /\ draining => NumZeroSlots(AgentState) = Cardinality(ZeroSlotContainers)
    /\ (~draining /\ ~enabled) => NumZeroSlots(AgentState) = 0
    /\ (~draining /\ enabled) => NumZeroSlots(AgentState) = maxZeroSlotContainers
    /\ (draining \/ ~enabled) => NumEmptyZeroSlots(AgentState) = 0
    /\ (~draining /\ enabled)
       => NumEmptyZeroSlots(AgentState)
              = maxZeroSlotContainers - Cardinality(ZeroSlotContainers)

\* A draining agent holds a zero-slot container and a container with a device.
C17_Witness ==
    /\ draining
    /\ ZeroSlotContainers # {}
    /\ DOMAIN containerState \ ZeroSlotContainers # {}
    /\ NumZeroSlots(AgentState) = 1
    /\ NumEmptyZeroSlots(AgentState) = 0

\* C18: on an agent with enabled = true and draining = false,
\* NumUsedSlots + NumEmptySlots = NumSlots, however many slots are individually
\* disabled or draining.
C18_UsedPlusEmpty ==
    (enabled /\ ~draining)
    => NumUsedSlots(AgentState) + NumEmptySlots(AgentState) = NumSlots(AgentState)

\* An enabled agent with an owned device and an individually disabled slot.
C18_Witness ==
    /\ enabled
    /\ ~draining
    /\ NumUsedSlots(AgentState) > 0
    /\ \E d \in DOMAIN slotStates : ~slotStates[d].userEnabled

\* ----------------------------------------------------------- startContainer
IsStartContainer == last.op = "startContainer"

\* Device d fails startContainer's validation on agent a.
FailsValidation(a, d) ==
    \/ d \notin DOMAIN a.slotStates
    \/ ~SlotEnabled(a.slotStates[d])
    \/ a.slotStates[d].containerID # Nil

\* C19: startContainer returns an error iff some device of the container's
\* device list has no slot, has a slot that is not effectively enabled, or has a
\* slot whose containerID is already set.
C19_StartContainerFailsIffInvalid ==
    IsStartContainer
    => (~last.ok <=> \E d \in Range(last.arg.container.Devices) :
                         FailsValidation(last.pre, d))

\* A device handed out by AllocateFreeDevices had its slot disabled before the
\* container was started on it.
C19_Witness ==
    /\ IsStartContainer
    /\ ~last.ok
    /\ last.arg.container.ID \in DOMAIN last.pre.containerState
    /\ last.arg.container.Devices # <<>>
    /\ last.pre.containerState[last.arg.container.ID].Devices = last.arg.container.Devices
    /\ \A d \in Range(last.arg.container.Devices) :
          /\ d \in DOMAIN last.pre.slotStates
          /\ ~last.pre.slotStates[d].userEnabled
          /\ last.pre.slotStates[d].containerID = Nil

\* C20: when startContainer succeeds for container C with owner handle H,
\* every device of C's list has its slot bound to C, C is a key of
\* containerState and containerAllocation[C] = H.
C20_StartContainerRegisters ==
    (IsStartContainer /\ last.ok)
    => LET c == last.arg.container
       IN  /\ \A d \in Range(c.Devices) :
                 d \in DOMAIN slotStates /\ slotStates[d].containerID = c.ID
           /\ c.ID \in DOMAIN containerState
           /\ c.ID \in DOMAIN containerAllocation
           /\ containerAllocation[c.ID] = last.arg.taskActor

\* ------------------------------------------------------- patching all slots
IsPatchAll == last.op = "patchAllSlotsState"

\* PatchSlotState applied to the slots `ids` one after the other.
RECURSIVE PatchEachSlot(_, _, _, _)
PatchEachSlot(a, ids, msgEnabled, msgDrain) ==
    IF ids = <<>> THEN a
    ELSE PatchEachSlot(patchSlotState(a, Head(ids), msgEnabled, msgDrain).a,
                       Tail(ids), msgEnabled, msgDrain)

\* C21: PatchAllSlotsState leaves the slotStates and Devices that PatchSlotState
\* applied to every slot leaves, in whatever order the slots are taken; every
\* slot's userEnabled / draining is the patched value where one was given; the
\* returned summary has exactly one entry per slot.
C21_PatchAllIsPatchEach ==
    IsPatchAll
    => /\ \A ids \in Orders(DOMAIN last.pre.slotStates) :
             LET b == PatchEachSlot(last.pre, ids, last.arg.enabled, last.arg.drain)
             IN  slotStates = b.slotStates /\ Devices = b.Devices
       /\ \A d \in DOMAIN slotStates :
             /\ last.arg.enabled # <<>> => slotStates[d].userEnabled = last.arg.enabled[1]
             /\ last.arg.drain # <<>> => slotStates[d].draining = last.arg.drain[1]
       /\ Len(last.ret) = Cardinality(DOMAIN slotStates)
       /\ {last.ret[i].ID : i \in DOMAIN last.ret} = DOMAIN slotStates

\* Two slots, one of them bound to a container, are disabled by one patch.
C21_Witness ==
    /\ IsPatchAll
    /\ last.arg.enabled = <<FALSE>>
    /\ Cardinality(DOMAIN slotStates) = NumDevices
    /\ \E d \in DOMAIN slotStates : slotStates[d].containerID # Nil
    /\ last.pre.Devices # EmptyMap
    /\ Devices # last.pre.Devices
    /\ Len(last.ret) = NumDevices

\* The last operation was PatchAllSlotsState(enabled = false) without a drain
\* field, on an agent none of whose slots was draining.
IsDisableAll ==
    /\ IsPatchAll
    /\ last.arg.enabled = <<FALSE>>
    /\ last.arg.drain = <<>>
    /\ \A d \in DOMAIN last.pre.slotStates : ~last.pre.slotStates[d].draining

\* C22: after PatchAllSlotsState(enabled = false) without drain, on an agent
\* none of whose slots is draining, NumSlots = 0 and NumEmptySlots = 0, and for
\* every slot that held a container a Kill signal with reason "slot disabled"
\* addressed to that container's containerAllocation entry has been sent.
C22_DisableAllEmptiesAndEvicts ==
    IsDisableAll
    => /\ NumSlots(AgentState) = 0
       /\ NumEmptySlots(AgentState) = 0
       /\ \A d \in DOMAIN last.pre.slotStates :
             LET c == last.pre.slotStates[d].containerID
             IN  c # Nil
                 => KillSignal(Lookup(last.pre.containerAllocation, c)) \in Range(last.sig)

\* An enabled agent with capacity and a started container has all its slots
\* disabled: the container's owner handle is signalled.
C22_Witness ==
    /\ IsDisableAll
    /\ last.pre.enabled
    /\ NumSlots(last.pre) > 0
    /\ \E d \in DOMAIN last.pre.slotStates :
          /\ last.pre.slotStates[d].containerID \in DOMAIN last.pre.containerAllocation
          /\ SlotEnabled(last.pre.slotStates[d])
    /\ \E i \in DOMAIN last.sig : last.sig[i].to \in Handles
    /\ Devices = EmptyMap

\* ------------------------------------------------- choice of free devices
\* C23: a second call AllocateFreeDevices(k, C) on an agent with the state the
\* first one started from succeeds with the same set of devices and leaves the
\* same state, whatever order it visits Devices in.
C23_AllocateDeterministic ==
    (IsAllocate /\ last.ok)
    => \A order \in Orders(DOMAIN last.pre.Devices) :
          LET r == AllocateFreeDevices(last.pre, last.arg.slots, last.arg.cid, order)
          IN  /\ r.ok
              /\ Range(r.ret) = Range(last.ret)
              /\ r.a = AgentState

\* ------------------------------------------------------------ master start
IsMasterStart == last.op = "masterStart"

ReattachPools == {p \in DOMAIN last.arg.rpConfigList : last.arg.rpConfigList[p]}

\* C24: when no pool has reattachment enabled retrieveAgentStates returns the
\* empty map without querying the store; when it returns without error, its
\* result has, under each agent id, the AgentState rebuilt from that agent's
\* snapshot, for exactly the snapshots whose resource pool has reattachment
\* enabled.
C24_RetrieveReattachPools ==
    IsMasterStart
    => /\ ReattachPools = {}
          => last.ok /\ last.ret.states = EmptyMap /\ ~last.ret.read
       /\ last.ok
          => /\ DOMAIN last.ret.states =
                    {id \in DOMAIN last.arg.snapshots :
                        last.arg.snapshots[id].ResourcePoolName \in ReattachPools}
             /\ \A id \in DOMAIN last.ret.states :
                    last.ret.states[id] =
                        newAgentStateFromSnapshot(last.arg.snapshots[id], containerRows)

\* Two snapshots, one in a pool with reattachment and one in a configured pool
\* without: only the first is rebuilt.
C24_Witness ==
    /\ IsMasterStart
    /\ last.ok
    /\ last.ret.read
    /\ Cardinality(DOMAIN last.arg.snapshots) = NumAgents
    /\ Cardinality(DOMAIN last.ret.states) = 1
    /\ \E id \in DOMAIN last.arg.snapshots :
          /\ last.arg.snapshots[id].ResourcePoolName \in DOMAIN last.arg.rpConfigList
          /\ id \notin DOMAIN last.ret.states

\* ------------------------------------------------------------ reconciliation
\* The last operation was a PatchSlotState on an existing slot: one
\* reconciliation of that slot.
IsReconcile == IsPatchSlot /\ last.ok

\* C25 as stated: a reconciliation sends the "slot disabled" signal only in the
\* step that removes the slot's device from Devices: the slot is not
\* effectively enabled, was materialized and is not draining.
C25_SignalOnlyOnRemoval ==
    (IsReconcile /\ last.sig # <<>>)
    => LET d == last.arg.id
       IN  /\ ~SlotEnabled(slotStates[d])
           /\ ~slotStates[d].draining
           /\ last.pre.slotStates[d].deviceAdded
           /\ d \in DOMAIN last.pre.Devices
           /\ d \notin DOMAIN Devices

\* C25: a reconciliation sends the "slot disabled" signal, once, exactly when
\* the slot is not effectively enabled, not draining and bound to a container,
\* whether or not the slot was materialized.
C25_SignalWheneverDisabledAndBound ==
    IsReconcile
    => LET s == slotStates[last.arg.id]
       IN  /\ Len(last.sig) <= 1
           /\ last.sig # <<>>
                  <=> (~SlotEnabled(s) /\ ~s.draining /\ s.containerID # Nil)
           /\ \A i \in DOMAIN last.sig : last.sig[i].reason = "slot disabled"

\* A slot that is already disabled and unmaterialized, and still holds its
\* container, is disabled again: the signal is sent again.
C25_Witness ==
    /\ IsReconcile
    /\ last.arg.enabled = <<FALSE>>
    /\ ~last.pre.slotStates[last.arg.id].userEnabled
    /\ ~last.pre.slotStates[last.arg.id].deviceAdded
    /\ last.pre.slotStates[last.arg.id].containerID # Nil
    /\ last.arg.id \notin DOMAIN last.pre.Devices
    /\ Len(last.sig) = 1

\* C26: a reconciliation of an effectively enabled slot that is not
\* materialized adds its device to Devices with the slot's containerID as owner
\* (nil if none) and sets deviceAdded; on an effectively enabled slot that is
\* already materialized it changes nothing. Neither sends a signal.
C26_EnabledSlotReconciliation ==
    (IsReconcile /\ SlotEnabled(slotStates[last.arg.id]))
    => LET d == last.arg.id
           p == last.pre.slotStates[d]
           s == slotStates[d]
       IN  /\ last.sig = <<>>
           /\ s.deviceAdded
           /\ s.containerID = p.containerID
           /\ \A e \in DOMAIN slotStates \ {d} : slotStates[e] = last.pre.slotStates[e]
           /\ IF p.deviceAdded
              THEN Devices = last.pre.Devices
              ELSE Devices = Put(last.pre.Devices, s.device, p.containerID)

\* A disabled, unmaterialized slot that holds a container is enabled again: its
\* device comes back owned by that container.
C26_Witness ==
    /\ IsReconcile
    /\ SlotEnabled(slotStates[last.arg.id])
    /\ ~last.pre.slotStates[last.arg.id].deviceAdded
    /\ last.arg.id \notin DOMAIN last.pre.Devices
    /\ slotStates[last.arg.id].containerID # Nil
    /\ Devices[last.arg.id] = slotStates[last.arg.id].containerID

\* The materialized case of C26: an owned device of an enabled slot is left alone.
C26_MaterializedCase ==
    /\ IsReconcile
    /\ SlotEnabled(slotStates[last.arg.id])
    /\ last.pre.slotStates[last.arg.id].deviceAdded
    /\ last.pre.Devices[last.arg.id] # Nil
    /\ slotStates[last.arg.id].containerID = Nil

\* ---------------------------------------------------- containerStateChanged
IsContainerStateChanged == last.op = "containerStateChanged"

\* The listed devices that have a slot.
ListedSlots == Range(last.arg.container.Devices) \cap DOMAIN last.pre.slotStates

\* C27: when the container's device list mixes devices with and without a
\* slot, containerStateChanged creates no slot for the missing devices, updates
\* the containerID of every listed device that has a slot, and updates
\* containerState for the container.
C27_MissingSlotsAreSkipped ==
    (IsContainerStateChanged /\ Range(last.arg.container.Devices) # ListedSlots)
    => LET c == last.arg.container
           bound == IF c.State = Terminated THEN Nil ELSE c.ID
       IN  /\ DOMAIN slotStates = DOMAIN last.pre.slotStates
           /\ \A d \in ListedSlots : slotStates[d].containerID = bound
           /\ IF c.State = Terminated
              THEN containerState = Delete(last.pre.containerState, c.ID)
              ELSE containerState = Put(last.pre.containerState, c.ID, c)

\* The device without a slot comes first in the list; the one after it is bound.
C27_Witness ==
    /\ IsContainerStateChanged
    /\ last.arg.container.State = StateRunning
    /\ Len(last.arg.container.Devices) = 2
    /\ last.arg.container.Devices[1] \notin DOMAIN slotStates
    /\ last.arg.container.Devices[2] \in DOMAIN slotStates
    /\ last.pre.slotStates[last.arg.container.Devices[2]].containerID = Nil
    /\ slotStates[last.arg.container.Devices[2]].containerID = last.arg.container.ID

IsFirstAgentStarted ==
    /\ last.op = "agentStarted"
    /\ last.pre = NewAgentState(NewUUID, ZeroSlotCeiling)

\* C29: after agentStarted(deviceList) on a newly created agent there is
\* exactly one slot per reported device, with agentEnabled = userEnabled = true
\* and draining = false; every reported device is in Devices with a nil owner;
\* NumSlots is the number of reported devices and NumUsedSlots is 0.
C29_FirstAgentStarted ==
    IsFirstAgentStarted
    => /\ DOMAIN slotStates = Range(last.arg.devices)
       /\ \A d \in DOMAIN slotStates :
             /\ slotStates[d].device = d
             /\ slotStates[d].agentEnabled
             /\ slotStates[d].userEnabled
             /\ ~slotStates[d].draining
             /\ slotStates[d].containerID = Nil
       /\ Devices = [d \in Range(last.arg.devices) |-> Nil]
       /\ NumSlots(AgentState) = Len(last.arg.devices)
       /\ NumUsedSlots(AgentState) = 0
       /\ last.sig = <<>>

\* The new agent reports all its devices.
C29_Witness ==
    /\ IsFirstAgentStarted
    /\ Len(last.arg.devices) = NumDevices
    /\ NumSlots(AgentState) = NumDevices
    /\ NumEmptySlots(AgentState) = NumDevices

\* ------------------------------------------------------ Enable and Disable
\* C30: Enable sets enabled = true and draining = false, Disable(drain) sets
\* enabled = false and draining = drain; neither changes slotStates, Devices,
\* containerState or containerAllocation, and neither sends a signal.
C30_EnableDisableFrame ==
    /\ last.op = "Enable" => enabled /\ ~draining
    /\ last.op = "Disable" => ~enabled /\ draining = last.arg.drain
    /\ last.op \in {"Enable", "Disable"}
       => /\ slotStates = last.pre.slotStates
          /\ Devices = last.pre.Devices
          /\ containerState = last.pre.containerState
          /\ containerAllocation = last.pre.containerAllocation
          /\ uuid = last.pre.uuid
          /\ maxZeroSlotContainers = last.pre.maxZeroSlotContainers
          /\ last.sig = <<>>

\* An enabled agent with a started container on one of its slots is disabled
\* without drain: the container, its slot and its device stay as they were.
C30_Witness ==
    /\ last.op = "Disable"
    /\ ~last.arg.drain
    /\ last.pre.enabled
    /\ containerAllocation # EmptyMap
    /\ \E d \in DOMAIN slotStates :
          /\ slotStates[d].containerID \in DOMAIN containerAllocation
          /\ d \in DOMAIN Devices
    /\ NumSlots(AgentState) = 0

\* ------------------------------------------------------ restoring owners
\* The last operation was the restoreContainersField that follows the
\* rebuilding of the agent from its snapshot.
IsRestoreOfRebuilt == last.op = "restoreContainersField" /\ last.chained

\* C31: after restoreContainersField on an agent rebuilt from a snapshot,
\* containerAllocation holds exactly the containers of containerState that
\* resolve to a running allocation, with that allocation's handle; containerState
\* and the slot and device bindings are as before, those of the unresolved
\* containers included; a clearUnlessRecovered that does not list a container
\* leaves no entry and no binding of it.
C31_RestoreRegistersLiveOnly ==
    /\ IsRestoreOfRebuilt
       => /\ containerAllocation = last.arg.live
          /\ DOMAIN containerAllocation \subseteq DOMAIN containerState
          /\ containerState = last.pre.containerState
          /\ slotStates = last.pre.slotStates
          /\ Devices = last.pre.Devices
    /\ last.op = "clearUnlessRecovered"
       => \A c \in ContainerIDs \ last.arg.recovered :
             /\ c \notin DOMAIN containerState
             /\ c \notin DOMAIN containerAllocation
             /\ \A d \in DOMAIN slotStates : slotStates[d].containerID # c
             /\ \A d \in DOMAIN Devices : Devices[d] # c

\* A rebuilt agent holds a container on a slot; its allocation does not resolve:
\* the container has no owner entry but keeps its slot, device and entry.
C31_Witness ==
    /\ IsRestoreOfRebuilt
    /\ \E c \in DOMAIN containerState :
          /\ c \notin DOMAIN containerAllocation
          /\ \E d \in DOMAIN slotStates :
                slotStates[d].containerID = c /\ Devices[d] = c

\* The resolved case of C31 is reached as well.
C31_ResolvedCase ==
    /\ IsRestoreOfRebuilt
    /\ containerAllocation # EmptyMap
    /\ DOMAIN containerAllocation # DOMAIN containerState

\* ------------------------------------------------- clearing, any confirmed set
IsClear == last.op = "clearUnlessRecovered"

\* The containers agent a refers to: as a device owner, as a slot's
\* containerID, as a key of containerState or of containerAllocation.
References(a) ==
    ({a.Devices[d] : d \in DOMAIN a.Devices}
         \cup {a.slotStates[d].containerID : d \in DOMAIN a.slotStates}
         \cup DOMAIN a.containerState
         \cup DOMAIN a.containerAllocation) \ {Nil}

\* C32: clearUnlessRecovered(S) persists exactly once when the agent referred to
\* a container outside S and not at all when every reference is in S; the same
\* call made again right afterwards changes nothing and does not persist.
C32_ClearPersistsIffChanged ==
    IsClear
    => /\ last.persists = IF References(last.pre) \subseteq last.arg.recovered
                          THEN 0 ELSE 1
       /\ References(last.pre) \subseteq last.arg.recovered => AgentState = last.pre
       /\ LET again == clearUnlessRecovered(AgentState, last.arg.recovered)
          IN  again.a = AgentState /\ ~again.ok

\* Every container the agent refers to, on a slot, a device and as an owner
\* entry, is confirmed: nothing is written.
C32_Witness ==
    /\ IsClear
    /\ References(last.pre) # {}
    /\ References(last.pre) \subseteq last.arg.recovered
    /\ last.pre.containerAllocation # EmptyMap
    /\ \E d \in DOMAIN last.pre.slotStates : last.pre.slotStates[d].containerID # Nil
    /\ last.persists = 0

\* The slots of agent a bound to container c.
BoundTo(a, c) == {d \in DOMAIN a.slotStates : a.slotStates[d].containerID = c}

\* C33: clearUnlessRecovered(S) leaves, for every container of S, its device
\* owners, its slot containerIDs, its containerState entry and its
\* containerAllocation entry as they were, and changes neither the agent flags,
\* nor a slot's enabled / draining flags, nor the set of materialized devices.
C33_ClearKeepsConfirmed ==
    IsClear
    => /\ \A c \in last.arg.recovered :
             /\ OwnedBy(AgentState, c) = OwnedBy(last.pre, c)
             /\ BoundTo(AgentState, c) = BoundTo(last.pre, c)
             /\ Lookup(containerState, c) = Lookup(last.pre.containerState, c)
             /\ (c \in DOMAIN containerState) = (c \in DOMAIN last.pre.containerState)
             /\ Lookup(containerAllocation, c) = Lookup(last.pre.containerAllocation, c)
       /\ enabled = last.pre.enabled
       /\ draining = last.pre.draining
       /\ DOMAIN Devices = DOMAIN last.pre.Devices
       /\ DOMAIN slotStates = DOMAIN last.pre.slotStates
       /\ \A d \in DOMAIN slotStates :
             [slotStates[d] EXCEPT !.containerID = Nil]
                 = [last.pre.slotStates[d] EXCEPT !.containerID = Nil]

\* --------------------------------------------------------------- agent flags
\* C34: the agent is never enabled and draining at once.
C34_NotEnabledAndDraining == ~(enabled /\ draining)

\* A draining agent was persisted and rebuilt from its snapshot: it is still
\* draining and not enabled.
C34_Witness ==
    /\ last.op = "retrieveAgentStates"
    /\ draining
    /\ ~enabled
    /\ last.pre.draining

\* ---------------------------------------------------------- capacity bounds
\* C35: in every reachable state NumUsedZeroSlots <= maxZeroSlotContainers and
\* NumEmptyZeroSlots >= 0.
C35_ZeroSlotCeiling ==
    /\ NumUsedZeroSlots(AgentState) <= maxZeroSlotContainers
    /\ NumEmptyZeroSlots(AgentState) >= 0

\* C36 as stated: in every reachable state NumUsedSlots <= NumSlots and
\* NumEmptySlots >= 0.
C36_UsedWithinCapacity ==
    /\ NumUsedSlots(AgentState) <= NumSlots(AgentState)
    /\ NumEmptySlots(AgentState) >= 0

\* C36: in every reachable state NumUsedSlots is at most the number of devices
\* in Devices and NumEmptySlots >= 0; NumUsedSlots <= NumSlots on an agent that
\* is enabled or draining.
C36_UsedWithinDevices ==
    /\ NumUsedSlots(AgentState) <= Cardinality(DOMAIN Devices)
    /\ NumEmptySlots(AgentState) >= 0
    /\ (enabled \/ draining) => NumUsedSlots(AgentState) <= NumSlots(AgentState)

\* An agent disabled without drain while a container owns a device: it reports
\* a used slot and no capacity.
C36_Witness ==
    /\ ~enabled
    /\ ~draining
    /\ last.op = "Disable"
    /\ NumUsedSlots(AgentState) > 0
    /\ NumSlots(AgentState) = 0
    /\ NumEmptySlots(AgentState) = 0

\* -------------------------------------------------------- owner handles
\* C37: in every reachable state every key of containerAllocation is a key of
\* containerState.
C37_OwnersHaveContainers == DOMAIN containerAllocation \subseteq DOMAIN containerState

\* C38: every "slot disabled" kill signal sent by the last operation is
\* addressed to a registered owner handle, never to the nil of a missing
\* containerAllocation entry.
C38_SignalsHaveRecipient ==
    \A i \in DOMAIN last.sig :
        last.sig[i].signal = "Kill" => last.sig[i].to \in Handles

\* ------------------------------------------------- repeated device report
\* C40: agentStarted for a device the agent already tracks keeps the slot's
\* containerID, userEnabled and draining and keeps the device's owner in
\* Devices.
C40_RepeatedReportKeepsBindings ==
    last.op = "agentStarted"
    => \A i \in DOMAIN last.arg.devices :
           LET d == last.arg.devices[i]
           IN  /\ d \in DOMAIN last.pre.slotStates
                  => /\ slotStates[d].containerID = last.pre.slotStates[d].containerID
                     /\ slotStates[d].userEnabled = last.pre.slotStates[d].userEnabled
                     /\ slotStates[d].draining = last.pre.slotStates[d].draining
               /\ d \in DOMAIN last.pre.Devices
                  => /\ d \in DOMAIN Devices
                     /\ Devices[d] = last.pre.Devices[d]

\* ------------------------------------------------------------- DeepCopy
IsCopyOp == last.op \in {"copy.AllocateFreeDevices", "copy.DeallocateContainer"}

IsOriginalOpWithCopy ==
    /\ last.op \in {"AllocateFreeDevices", "DeallocateContainer"}
    /\ last.copy # <<>>

CapacityQueries(a) ==
    <<NumSlots(a), NumUsedSlots(a), NumEmptySlots(a), NumUsedZeroSlots(a), Idle(a)>>

\* C39: AllocateFreeDevices and DeallocateContainer on the copy leave the
\* original's Devices, containerState and capacity queries unchanged, and the
\* same calls on the original leave those of the copy unchanged.
C39_DeepCopyIsolates ==
    /\ IsCopyOp
       => /\ Devices = last.pre.Devices
          /\ containerState = last.pre.containerState
          /\ CapacityQueries(AgentState) = CapacityQueries(last.pre)
    /\ IsOriginalOpWithCopy
       => /\ CopiedView[1].Devices = last.copy[1].Devices
          /\ CopiedView[1].containerState = last.copy[1].containerState
          /\ CapacityQueries(CopiedView[1]) = CapacityQueries(last.copy[1])

\* The copy has been given a device that is still free in the original.
C39_Witness ==
    /\ last.op = "copy.AllocateFreeDevices"
    /\ last.ok
    /\ last.arg.slots > 0
    /\ \E d \in DOMAIN Devices :
          /\ Devices[d] = Nil
          /\ CopiedView[1].Devices[d] = last.arg.cid
    /\ last.arg.cid \notin DOMAIN containerState
    /\ NumUsedSlots(CopiedView[1]) > NumUsedSlots(AgentState)

====
